---- MODULE Spec2Model ----
(***************************************************************************)
(* A model of nanoparticle_generator: the Geometric Object wrapper         *)
(* (blender.py), the shape builders (shapes/*.py) and the Scene composer   *)
(* (scene_building.py).                                                    *)
(*                                                                         *)
(* Geometry.  A mesh is a finite union of axis-aligned boxes with integer   *)
(* corners; its vertices are the corners of its boxes.  Lengths are        *)
(* integers: Unit stands for the length 1.0.  Rotations are the lattice    *)
(* rotations a quaternion with components in {0,1} produces, scale factors *)
(* are the rationals that keep the mesh on the lattice, and the boolean    *)
(* modifiers act on the grid the faces of both operands cut space into.    *)
(* Continuous random draws are enumerated over finite sample sets that     *)
(* contain the end points of the drawn interval where the lattice has them.*)
(*                                                                         *)
(* Specifications, over one tuple of variables, each leaving the other     *)
(* parts at rest:                                                          *)
(*   Spec           the Scene composer: add_random_shape and               *)
(*                  add_random_core_shell_shape, line by line              *)
(*   SpecExtent     the Scene composer on extents off the origin           *)
(*   SpecPlace      one position_randomly call with its rejection loop     *)
(*   SpecTransform  translate, rotate and scale called on one object       *)
(*   SpecSelect     the scoped selection selected(mode), nested            *)
(*   SpecBuild      the constructors of shapes/fcc.py and shapes/basic.py  *)
(*                  as sequences of mesh-engine calls                      *)
(*   SpecRod        the Rod recipe on the rings of the ico sphere          *)
(***************************************************************************)
EXTENDS Integers, Sequences, FiniteSets, TLC

VARIABLES
    \* ---- position_randomly, one call at a time (SpecPlace)
    p_obj,      \* the object position_randomly is called on
    p_obj0,     \* the object as it was when the call was made
    p_box,      \* the bounding_box argument <<x_min,x_max,y_min,y_max,z_min,z_max>>
    p_fit,      \* the fit_in_cylinder argument
    p_pc,       \* "idle" | "loop" | "translate" | "done" | "raised"
    p_min,      \* min_shift
    p_max,      \* max_shift
    p_shift,    \* the local variable shift
    p_ret,      \* the value returned
    p_draws,    \* number of draws made by the current call
    \* ---- the Scene composer (Spec)
    extent,     \* Scene.extent
    objs,       \* the objects of the Blender scene, by identity 1..Len(objs)
    pc,         \* the line the running Scene operation has reached
    shape,      \* add_random_shape: shape
    shell,      \* add_random_core_shell_shape: shell_shape
    core,       \* core_shape
    core_copy,  \* core_shape_copy (None: the name is unbound)
    quat,       \* shell_rotation_quaternion
    shell_shift, \* shell_shift
    ret,        \* the value the last operation returned
    calls,      \* operations started on this Scene
    placed,     \* the objects add_random_shape has returned
    pre,        \* the scene when the running operation reached line 39
    booleans,   \* the apply_boolean calls of the running operation
    built,      \* the constructor calls add_random_shape made: family and arguments
    \* ---- translate, rotate and scale on one object (SpecTransform)
    t_obj,      \* the Blender object: mesh and pending location, rotation, scale
    t_prev,     \* the object when the running or last call was made
    t_op,       \* the running or last call: <<method, argument, caller>>
    t_pc,       \* "ready" | "apply"
    t_n,        \* calls made
    \* ---- the scoped selection (SpecSelect)
    s_live,     \* the objects of the scene
    s_active,   \* bpy.context.view_layer.objects.active (None: no active object)
    s_selected, \* bpy.context.selected_objects
    s_mode,     \* each object's mode, "OBJECT" or "EDIT"
    s_stack,    \* the selected() scopes entered and not left, innermost first
    s_last,     \* the last scope left: what it saved and what it left behind
    \* ---- the shape builders (SpecBuild)
    b_family,   \* the class being constructed
    b_deg,      \* its truncation and smoothing arguments
    b_pc,       \* the step the constructor has reached
    b_log,      \* the mesh-engine calls made so far
    b_dims,     \* self.dimensions
    b_g,        \* how many times the mesh has been changed
    b_smooth,   \* b_g when smooth_edges was entered and when it returned
    \* ---- the Rod recipe (SpecRod)
    r_args,     \* the arguments of fcc.Rod: height and diameter
    r_pc,       \* the line SphericallyCappedCylinder.__init__ has reached
    r_rings,    \* the mesh: its rings of vertices, joined in this order
    r_sel       \* the rings whose vertices are selected

placeVars == <<p_obj, p_obj0, p_box, p_fit, p_pc, p_min, p_max, p_shift, p_ret, p_draws>>

sceneVars == <<extent, objs, pc, shape, shell, core, core_copy, quat, shell_shift, ret,
               calls, placed, pre, booleans, built>>

transformVars == <<t_obj, t_prev, t_op, t_pc, t_n>>

selectVars == <<s_live, s_active, s_selected, s_mode, s_stack, s_last>>

buildVars == <<b_family, b_deg, b_pc, b_log, b_dims, b_g, b_smooth>>

rodVars == <<r_args, r_pc, r_rings, r_sel>>

vars == <<placeVars, sceneVars, transformVars, selectVars, buildVars, rodVars>>

notPlace == <<sceneVars, transformVars, selectVars, buildVars, rodVars>>

notScene == <<placeVars, transformVars, selectVars, buildVars, rodVars>>

notTransform == <<placeVars, sceneVars, selectVars, buildVars, rodVars>>

notSelect == <<placeVars, sceneVars, transformVars, buildVars, rodVars>>

notBuild == <<placeVars, sceneVars, transformVars, selectVars, rodVars>>

notRod == <<placeVars, sceneVars, transformVars, selectVars, buildVars>>

-----------------------------------------------------------------------------
(* Arithmetic helpers *)

Abs(x) == IF x < 0 THEN -x ELSE x

Min(S) == CHOOSE x \in S : \A y \in S : x <= y

Max(S) == CHOOSE x \in S : \A y \in S : x >= y

RECURSIVE GCD(_, _)
GCD(a, b) == IF b = 0 THEN Abs(a) ELSE GCD(b, a % b)

VAdd(u, v) == <<u[1] + v[1], u[2] + v[2], u[3] + v[3]>>

VSub(u, v) == <<u[1] - v[1], u[2] - v[2], u[3] - v[3]>>

Axes == 1..3

None == <<>>

-----------------------------------------------------------------------------
(* Each part of the program at rest, for the specifications that do not run it *)

SceneIdle ==
    /\ extent = None /\ objs = <<>> /\ pc = "off"
    /\ shape = None /\ shell = None /\ core = None /\ core_copy = None
    /\ quat = None /\ shell_shift = None /\ ret = None
    /\ calls = 0 /\ placed = {} /\ pre = None /\ booleans = <<>>
    /\ built = <<>>

PlaceIdle ==
    /\ p_obj = None /\ p_obj0 = None /\ p_box = None /\ p_fit = FALSE
    /\ p_pc = "off" /\ p_min = None /\ p_max = None /\ p_shift = None
    /\ p_ret = None /\ p_draws = 0

TransformIdle ==
    /\ t_obj = None /\ t_prev = None /\ t_op = None /\ t_pc = "off" /\ t_n = 0

SelectIdle ==
    /\ s_live = {} /\ s_active = None /\ s_selected = {} /\ s_mode = <<>>
    /\ s_stack = <<>> /\ s_last = None

BuildIdle ==
    /\ b_family = None /\ b_deg = None /\ b_pc = "off" /\ b_log = <<>>
    /\ b_dims = None /\ b_g = 0 /\ b_smooth = None

RodIdle ==
    /\ r_args = None /\ r_pc = "off" /\ r_rings = <<>> /\ r_sel = {}

\* The draws of one position_randomly call that are counted.
MaxDraws == 3

-----------------------------------------------------------------------------
(* Lengths *)

\* The length 1.0 (the builders' nominal size) in model units.
Unit == 80

\* BLENDER_EPS is far below one model unit: comparisons against it in the
\* geometry below are comparisons against 0 on the lattice.

-----------------------------------------------------------------------------
(* The Geometric Object *)

IdLocation == <<0, 0, 0>>
IdQuaternion == <<1, 0, 0, 0>>
IdScale == <<1, 1>>          \* a scale factor is a rational <<num, den>>

\* A Blender object: its mesh, the union of the boxes
\* <<x0, x1, y0, y1, z0, z1>>, and its pending local transform.
Mesh(boxes) ==
    [boxes |-> boxes,
     location |-> IdLocation, rotation |-> IdQuaternion, scale |-> IdScale]

\* The box spanned by two opposite corners.
BoxOf(p, r) ==
    << IF p[1] <= r[1] THEN p[1] ELSE r[1], IF p[1] <= r[1] THEN r[1] ELSE p[1],
       IF p[2] <= r[2] THEN p[2] ELSE r[2], IF p[2] <= r[2] THEN r[2] ELSE p[2],
       IF p[3] <= r[3] THEN p[3] ELSE r[3], IF p[3] <= r[3] THEN r[3] ELSE p[3] >>

LoCorner(b) == <<b[1], b[3], b[5]>>

HiCorner(b) == <<b[2], b[4], b[6]>>

\* blender_object.data.vertices
Vertices(o) ==
    {<<b[i], b[j], b[k]>> : b \in o.boxes, i \in {1, 2}, j \in {3, 4}, k \in {5, 6}}

\* bounding_box[0] and the opposite corner of blender_object.bound_box
BBoxMin(o) == [i \in Axes |-> Min({b[2 * i - 1] : b \in o.boxes})]

BBoxMax(o) == [i \in Axes |-> Max({b[2 * i] : b \in o.boxes})]

\* blender_object.dimensions
Dimensions(o) == [i \in Axes |-> BBoxMax(o)[i] - BBoxMin(o)[i]]

MaxDimension(o) == Max({Dimensions(o)[i] : i \in Axes})

\* 2 * location, location being bounding_box[0] + dimensions/2 (kept doubled:
\* the bounding-box centre may fall between two lattice points)
Location2(o) == [i \in Axes |-> 2 * BBoxMin(o)[i] + Dimensions(o)[i]]

\* enclosing_sphere_diameter squared: (2 * max |v - location|)^2
EnclosingSphereDiameter2(o) ==
    Max({(2 * v[1] - Location2(o)[1]) * (2 * v[1] - Location2(o)[1])
         + (2 * v[2] - Location2(o)[2]) * (2 * v[2] - Location2(o)[2])
         + (2 * v[3] - Location2(o)[3]) * (2 * v[3] - Location2(o)[3]) :
            v \in Vertices(o)})

-----------------------------------------------------------------------------
(* Transforms *)

\* The rotation matrix of the quaternion q = <<w,x,y,z>> after normalisation
\* (rows), defined when its entries are integers.
QNorm2(q) == q[1] * q[1] + q[2] * q[2] + q[3] * q[3] + q[4] * q[4]

RotMatrixN(q) ==
    LET w == q[1]  x == q[2]  y == q[3]  z == q[4]  n == QNorm2(q) IN
    << << n - 2 * (y * y + z * z), 2 * (x * y - w * z), 2 * (x * z + w * y) >>,
       << 2 * (x * y + w * z), n - 2 * (x * x + z * z), 2 * (y * z - w * x) >>,
       << 2 * (x * z - w * y), 2 * (y * z + w * x), n - 2 * (x * x + y * y) >> >>

LatticeQuaternion(q) ==
    /\ QNorm2(q) > 0
    /\ \A i \in Axes, j \in Axes : RotMatrixN(q)[i][j] % QNorm2(q) = 0

RotMatrix(q) ==
    [i \in Axes |-> [j \in Axes |-> RotMatrixN(q)[i][j] \div QNorm2(q)]]

MatVec(m, v) ==
    <<m[1][1] * v[1] + m[1][2] * v[2] + m[1][3] * v[3],
      m[2][1] * v[1] + m[2][2] * v[2] + m[2][3] * v[3],
      m[3][1] * v[1] + m[3][2] * v[2] + m[3][3] * v[3]>>

\* A scale factor k = <<num, den>> keeps the mesh o on the lattice.
ScaleExact(o, k) ==
    /\ k[1] > 0 /\ k[2] > 0
    /\ \A b \in o.boxes : \A i \in 1..6 : (b[i] * k[1]) % k[2] = 0

\* matrix_world applied to a point: scale, then rotation, then location.
World(o, v) ==
    LET k == o.scale IN
    VAdd(MatVec(RotMatrix(o.rotation),
                <<(v[1] * k[1]) \div k[2], (v[2] * k[1]) \div k[2],
                  (v[3] * k[1]) \div k[2]>>),
         o.location)

\* A slip: transform_apply(location=True, rotation=True, scale=False); the
\* scale stays pending.
ApplyAllTransforms_ScaleLeft(o) ==
    LET u == [o EXCEPT !.scale = IdScale] IN
    [boxes |-> {BoxOf(World(u, LoCorner(b)), World(u, HiCorner(b))) : b \in o.boxes},
     location |-> IdLocation, rotation |-> IdQuaternion, scale |-> o.scale]

\* bpy.ops.object.transform_apply(): the mesh takes the pending scale, then
\* rotation, then location, and the pending transform becomes the identity.
ApplyAllTransforms(o) ==
    Mesh({BoxOf(World(o, LoCorner(b)), World(o, HiCorner(b))) : b \in o.boxes})

\* translate(transation_vector)
Translate(o, v) == ApplyAllTransforms([o EXCEPT !.location = v])

\* rotate(quaternion=q): the rotation mode is switched to QUATERNION, the
\* quaternion is set, and the mode is switched back, which converts the
\* rotation to the initial mode's representation.
Rotate(o, q) == ApplyAllTransforms([o EXCEPT !.rotation = q])

\* scale(scale_vector) with a scalar argument
Scale(o, k) == ApplyAllTransforms([o EXCEPT !.scale = k])

\* The rational a/b in lowest terms.
Ratio(a, b) == <<a \div GCD(a, b), b \div GCD(a, b)>>

-----------------------------------------------------------------------------
(* Shape builders, as the unions of boxes they stand for *)

\* fcc.Cube(size = 1.0): basic.Box, a cube of edge 1.0 centred on the origin.
Cube ==
    Mesh({<<-(Unit \div 2), Unit \div 2, -(Unit \div 2), Unit \div 2,
            -(Unit \div 2), Unit \div 2>>})

\* fcc.Rod(height = 1.0, diameter = d): a rod of length 1.0 along z and width d
\* centred on the origin.
Rod(d) ==
    Mesh({<<-(d \div 2), d \div 2, -(d \div 2), d \div 2,
            -(Unit \div 2), Unit \div 2>>})

\* randomized.Rod: diameter ~ U(0.25, 1.0); the sampled diameters.
RodDiameters == {Unit \div 4, Unit \div 2}

\* randomized.Cube: smoothing_degree ~ U(0.0, 0.1), in millionths; the sampled
\* degree, which the boxes of the cube do not show.
CubeSmoothingDegrees == {50000}

\* ALL_SHAPES: the families whose meshes are unions of boxes.
ALL_SHAPES == {"Cube", "Rod"}

\* A slip: the size drawn like the other parameters.
SampledArguments_SizeDrawn(family) ==
    IF family = "Cube"
    THEN {<<size, d>> : size \in {Unit \div 2, Unit}, d \in CubeSmoothingDegrees}
    ELSE {<<height, d>> : height \in {Unit \div 2, Unit}, d \in RodDiameters}

\* The arguments a randomized class passes to the library class:
\* Cube: (size = 1.0, smoothing_degree); Rod: (height = 1.0, diameter).
SampledArguments(family) ==
    IF family = "Cube"
    THEN {<<Unit, d>> : d \in CubeSmoothingDegrees}
    ELSE {<<Unit, d>> : d \in RodDiameters}

\* fcc.Cube(size, smoothing_degree) and fcc.Rod(height, diameter) as meshes:
\* both end at size 1.0 along their longest axis (the bevel of the cube's
\* edges is below the resolution of the boxes).
Construct(family, args) ==
    IF family = "Cube" THEN Cube ELSE Rod(args[2])

\* random.choice(ALL_SHAPES)(): the shapes a draw can build.
BuiltShapes == {Cube} \cup {Rod(d) : d \in RodDiameters}

\* apply_random_rotation: np.random.uniform(0, 1, size=4), normalised.
\* The sampled draws, before normalisation: a quarter turn about x and a third
\* of a turn about the diagonal.
QuaternionDraws ==
    {q \in {<<1, 1, 0, 0>>, <<1, 1, 1, 1>>} : LatticeQuaternion(q)}

-----------------------------------------------------------------------------
(* position_randomly *)

\* min_shift = (x_min, y_min, z_min) - (location - dimensions/2)
MinShift(o, box) ==
    [i \in Axes |-> box[2 * i - 1] - ((Location2(o)[i] - Dimensions(o)[i]) \div 2)]

\* A slip: the upper bound measured to the bounding-box centre.
MaxShift_FromCentre(o, box) ==
    [i \in Axes |-> box[2 * i] - (Location2(o)[i] \div 2)]

\* max_shift = (x_max, y_max, z_max) - (location + dimensions/2)
MaxShift(o, box) ==
    [i \in Axes |-> box[2 * i] - ((Location2(o)[i] + Dimensions(o)[i]) \div 2)]

\* np.random.uniform(low, high), one coordinate: both ends and the middle.
\* With low > high NumPy leaves the result undefined: the legacy generator
\* draws between the two all the same (here), or the call raises (PR_DrawFails).
Uniform(lo, hi) == {lo, hi, (lo + hi) \div 2}

\* np.random.uniform(low=min_shift, high=max_shift): the sampled vectors.
ShiftPatterns == {<<1, 2, 3>>, <<2, 1, 1>>}

Pick(lo, hi, t) == IF t = 1 THEN lo ELSE IF t = 2 THEN hi ELSE (lo + hi) \div 2

ShiftDraws(lo, hi) ==
    {[i \in Axes |-> Pick(lo[i], hi[i], t[i])] : t \in ShiftPatterns}

\* A slip: the half extent (the inscribed cylinder) for the full extent.
CylinderRadius_HalfExtent(box) ==
    (IF box[4] - box[3] >= box[6] - box[5] THEN box[4] - box[3] ELSE box[6] - box[5])
        \div 2

\* cylinder_radius = max(y_max - y_min, z_max - z_min)
CylinderRadius(box) ==
    IF box[4] - box[3] >= box[6] - box[5] THEN box[4] - box[3] ELSE box[6] - box[5]

\* 2 * cylinder_axis
CylinderAxis2(box) == <<box[3] + box[4], box[5] + box[6]>>

\* point_fits_in_cylinder(point): (point.yz - cylinder_axis).length < cylinder_radius
PointFitsInCylinder(point, box) ==
    (2 * point[2] - CylinderAxis2(box)[1]) * (2 * point[2] - CylinderAxis2(box)[1])
    + (2 * point[3] - CylinderAxis2(box)[2]) * (2 * point[3] - CylinderAxis2(box)[2])
    < 4 * CylinderRadius(box) * CylinderRadius(box)

\* A slip: any() written for all().
ObjectFitsInCylinder_AnyVertex(o, shift, box) ==
    \E v \in Vertices(o) : PointFitsInCylinder(VAdd(v, shift), box)

\* objects_fits_in_cylinder(): all(point_fits_in_cylinder(v.co + shift))
ObjectFitsInCylinder(o, shift, box) ==
    \A v \in Vertices(o) : PointFitsInCylinder(VAdd(v, shift), box)

\* The object's bounding box is no larger than the box on any axis.
FitsBox(o, box) ==
    \A i \in Axes : Dimensions(o)[i] <= box[2 * i] - box[2 * i - 1]

\* The object's bounding box lies inside the box.
InsideBox(o, box) ==
    \A b \in o.boxes : \A i \in Axes : /\ box[2 * i - 1] <= b[2 * i - 1]
                                       /\ b[2 * i] <= box[2 * i]

-----------------------------------------------------------------------------
(* SpecPlace: position_randomly called on a built, rotated and scaled shape *)

\* The objects position_randomly is called on: a built shape, rotated, scaled,
\* and standing at the origin or away from it.
PlaceScales == {<<3, 4>>, <<4, 5>>, <<9, 10>>}

PlaceOffsets == {<<0, 0, 0>>, <<7, -3, 12>>}

PlaceObjects ==
    UNION {UNION {{Translate(Scale(Rotate(s, q), k), t) :
                      k \in {kk \in PlaceScales : ScaleExact(s, kk)},
                      t \in PlaceOffsets} :
                  q \in QuaternionDraws} :
           s \in BuiltShapes}

\* The bounding_box arguments: the default Scene's, a box the shapes do not
\* fit, an off-centre box, and a box as tight as the largest shape.
PlaceBoxes ==
    { <<-38, 38, -38, 38, -38, 38>>,
      <<-20, 20, -20, 20, -20, 20>>,
      <<0, 76, 4, 80, -100, -24>>,
      <<-36, 36, -36, 36, -36, 36>>,
      <<-38, 38, -12, 12, -38, 38>> }

PlaceInit ==
    /\ p_obj \in PlaceObjects
    /\ p_obj0 = p_obj
    /\ p_box = None
    /\ p_fit = FALSE
    /\ p_pc = "idle"
    /\ p_min = None
    /\ p_max = None
    /\ p_shift = None
    /\ p_ret = None
    /\ p_draws = 0

\* Lines 142-147: the shift range and the first draw.
PR_Call(box, fit) ==
    /\ p_pc = "idle"
    /\ p_box' = box
    /\ p_fit' = fit
    /\ p_obj0' = p_obj
    /\ p_min' = MinShift(p_obj, box)
    /\ p_max' = MaxShift(p_obj, box)
    /\ p_shift' \in ShiftDraws(MinShift(p_obj, box), MaxShift(p_obj, box))
    /\ p_draws' = 1
    /\ p_pc' = IF fit THEN "loop" ELSE "translate"
    /\ UNCHANGED <<p_obj, p_ret, notPlace>>

\* Line 147 with min_shift above max_shift on some axis: NumPy leaves
\* uniform(low, high) with high < low undefined; it draws between the two (as
\* PR_Call has it) or it raises, and the call ends without a placement.
PR_DrawFails(box, fit) ==
    /\ p_pc = "idle"
    /\ \E i \in Axes : MinShift(p_obj, box)[i] > MaxShift(p_obj, box)[i]
    /\ p_box' = box
    /\ p_fit' = fit
    /\ p_obj0' = p_obj
    /\ p_min' = MinShift(p_obj, box)
    /\ p_max' = MaxShift(p_obj, box)
    /\ p_pc' = "raised"
    /\ UNCHANGED <<p_obj, p_shift, p_ret, p_draws, notPlace>>

\* Lines 156-157: the drawn shift leaves a vertex outside the cylinder; redraw.
PR_Redraw ==
    /\ p_pc = "loop"
    /\ ~ObjectFitsInCylinder(p_obj, p_shift, p_box)
    /\ p_shift' \in ShiftDraws(p_min, p_max)
    /\ p_draws' = IF p_draws < MaxDraws THEN p_draws + 1 ELSE p_draws
    /\ UNCHANGED <<p_obj, p_obj0, p_box, p_fit, p_pc, p_min, p_max, p_ret, notPlace>>

\* Line 156: the loop condition is false.
PR_Accept ==
    /\ p_pc = "loop"
    /\ ObjectFitsInCylinder(p_obj, p_shift, p_box)
    /\ p_pc' = "translate"
    /\ UNCHANGED <<p_obj, p_obj0, p_box, p_fit, p_min, p_max, p_shift, p_ret, p_draws,
                   notPlace>>

\* Lines 159-160: translate by the shift and return it.
PR_Return ==
    /\ p_pc = "translate"
    /\ p_obj' = Translate(p_obj, p_shift)
    /\ p_ret' = p_shift
    /\ p_pc' = "done"
    /\ UNCHANGED <<p_obj0, p_box, p_fit, p_min, p_max, p_shift, p_draws, notPlace>>

PlaceNext ==
    \/ \E box \in PlaceBoxes, fit \in BOOLEAN : PR_Call(box, fit)
    \/ \E box \in PlaceBoxes, fit \in BOOLEAN : PR_DrawFails(box, fit)
    \/ PR_Redraw
    \/ PR_Accept
    \/ PR_Return

InitPlace == PlaceInit /\ SceneIdle /\ TransformIdle /\ SelectIdle /\ BuildIdle /\ RodIdle

SpecPlace == InitPlace /\ [][PlaceNext]_vars

\* C1: when position_randomly returns and the object's bounding box was no
\* larger than the box on any axis, the translated object's bounding box lies
\* inside the box on all three axes, the returned shift is the translation
\* that was applied to the object as it was at the call, and with
\* fit_in_cylinder every vertex's (y,z) projection is strictly closer to the
\* box's (y,z) centre than the cylinder radius.
C1_PlacementContained ==
    (p_pc = "done" /\ FitsBox(p_obj0, p_box)) =>
        /\ InsideBox(p_obj, p_box)
        /\ Vertices(p_obj) = {VAdd(v, p_ret) : v \in Vertices(p_obj0)}
        /\ p_fit => \A v \in Vertices(p_obj) : PointFitsInCylinder(v, p_box)

\* C1 witness: a call with fit_in_cylinder returned a non-zero shift that put
\* the object against a face of a box it fits in.
C1_Witness ==
    /\ p_pc = "done" /\ p_fit /\ FitsBox(p_obj0, p_box)
    /\ p_ret # <<0, 0, 0>>
    /\ p_obj # p_obj0
    /\ \E i \in Axes : BBoxMax(p_obj)[i] = p_box[2 * i]
    /\ \E i \in Axes : Dimensions(p_obj0)[i] < p_box[2 * i] - p_box[2 * i - 1]

\* C11 as stated: when the object's bounding box does not fit the box on some
\* axis, position_randomly with fit_in_cylinder never accepts a draw: it does
\* not translate the object, does not return and does not fail.
C11_InfeasibleNeverReturns ==
    (p_pc # "idle" /\ p_fit /\ ~FitsBox(p_obj0, p_box)) =>
        /\ p_pc = "loop"
        /\ p_obj = p_obj0

\* C11 amended: with fit_in_cylinder the object is not translated before a
\* draw is accepted, the accepted draw puts every vertex strictly inside the
\* cylinder, and when the object's bounding box does not fit the box a call
\* that returns leaves the object translated by the returned shift with its
\* bounding box not inside the box.
C11_InfeasibleReturnsUncontained ==
    /\ p_pc \in {"loop", "raised"} => p_obj = p_obj0 /\ p_ret = None
    /\ (p_pc \in {"translate", "done"} /\ p_fit) =>
            \A v \in Vertices(p_obj0) : PointFitsInCylinder(VAdd(v, p_shift), p_box)
    /\ (p_pc = "done" /\ ~FitsBox(p_obj0, p_box)) =>
            /\ ~InsideBox(p_obj, p_box)
            /\ p_ret = p_shift
            /\ Vertices(p_obj) = {VAdd(v, p_ret) : v \in Vertices(p_obj0)}

\* C11 witness: a call with fit_in_cylinder on an object wider than the box
\* on the y axis returned and moved the object.
C11_Witness ==
    /\ p_pc = "done" /\ p_fit
    /\ Dimensions(p_obj0)[2] > p_box[4] - p_box[3]
    /\ p_obj # p_obj0

\* C14: in position_randomly with fit_in_cylinder, when the object's bounding
\* box is no larger than the box on any axis, the first drawn shift passes
\* the cylinder test, so the loop body never runs (one draw in all) and the
\* call is never left in the loop with a rejected draw.
C14_FirstDrawAccepted ==
    (p_pc \in {"loop", "translate", "done"} /\ p_fit /\ FitsBox(p_obj0, p_box)) =>
        /\ p_draws = 1
        /\ \A v \in Vertices(p_obj0) : PointFitsInCylinder(VAdd(v, p_shift), p_box)

\* C14 witness: a call with fit_in_cylinder returned after a single draw that
\* put a vertex of the object on an edge of the box's (y,z) cross-section,
\* the farthest a contained point gets from the cylinder axis.
C14_Witness ==
    /\ p_pc = "done" /\ p_fit /\ FitsBox(p_obj0, p_box)
    /\ p_draws = 1
    /\ \E v \in Vertices(p_obj) : /\ v[2] \in {p_box[3], p_box[4]}
                                  /\ v[3] \in {p_box[5], p_box[6]}

-----------------------------------------------------------------------------
(* Boolean modifiers *)

\* The coordinates along axis i at which a box of either mesh begins or ends.
Breaks(a, b, i) ==
    {x[2 * i - 1] : x \in a.boxes \cup b.boxes} \cup {x[2 * i] : x \in a.boxes \cup b.boxes}

\* The intervals between neighbouring break points.
Intervals(S) ==
    {<<u, v>> \in S \X S : u < v /\ ~\E w \in S : u < w /\ w < v}

\* The boxes of the grid the faces of both meshes cut space into.
GridBoxes(a, b) ==
    {<<ix[1], ix[2], iy[1], iy[2], iz[1], iz[2]>> :
        ix \in Intervals(Breaks(a, b, 1)),
        iy \in Intervals(Breaks(a, b, 2)),
        iz \in Intervals(Breaks(a, b, 3))}

\* The grid box e lies in the solid o.
Inside(e, o) ==
    \E b \in o.boxes : /\ b[1] <= e[1] /\ e[2] <= b[2]
                       /\ b[3] <= e[3] /\ e[4] <= b[4]
                       /\ b[5] <= e[5] /\ e[6] <= b[6]

\* A slip: the operation is not passed on and the modifier's default
\* (intersect) is always applied.
ApplyBoolean_AlwaysIntersect(self, other, operation) ==
    Mesh({e \in GridBoxes(self, other) : Inside(e, self) /\ Inside(e, other)})

\* A slip: the intersect modifier is added but never applied.
ApplyBoolean_IntersectNotApplied(self, other, operation) ==
    IF operation = "intersect" THEN self
    ELSE Mesh({e \in GridBoxes(self, other) : Inside(e, self) /\ ~Inside(e, other)})

\* apply_boolean(other, operation): the Boolean modifier, added and applied.
ApplyBoolean(self, other, operation) ==
    IF operation = "intersect"
    THEN Mesh({e \in GridBoxes(self, other) : Inside(e, self) /\ Inside(e, other)})
    ELSE Mesh({e \in GridBoxes(self, other) : Inside(e, self) /\ ~Inside(e, other)})

\* Volumes compared on the common grid.
VolSubset(a, b) == \A e \in GridBoxes(a, b) : Inside(e, a) => Inside(e, b)

VolDisjoint(a, b) == \A e \in GridBoxes(a, b) : ~(Inside(e, a) /\ Inside(e, b))

VolEqual(a, b) == \A e \in GridBoxes(a, b) : Inside(e, a) <=> Inside(e, b)

-----------------------------------------------------------------------------
(* The Scene composer *)

\* Scene.__init__: extent = (-0.5, 0.5, -0.5, 0.5, -0.5, 0.5)
DefaultExtent ==
    <<-(Unit \div 2), Unit \div 2, -(Unit \div 2), Unit \div 2, -(Unit \div 2), Unit \div 2>>

Extents == {DefaultExtent}

\* A slip: the extent itself is passed to position_randomly.
ShrunkBox_NotShrunk(e) == e

\* bounding_box=[0.95*x for x in self.extent]
ShrunkBox(e) == [i \in 1..6 |-> (95 * e[i]) \div 100]

\* scale_factor = np.random.uniform(low=0.75, high=0.9), in model units
ScaleFactorLow == (75 * Unit) \div 100

ScaleFactorHigh == (90 * Unit) \div 100

\* The argument scale_factor / max(shape.dimensions) of shape.scale, for the
\* drawn scale factors that keep the mesh on the lattice.
ShapeScaleDraws(o) ==
    {Ratio(sf, MaxDimension(o)) :
        sf \in {x \in Uniform(ScaleFactorLow, ScaleFactorHigh) :
                    ScaleExact(o, Ratio(x, MaxDimension(o)))}}

\* core_scale_factor = np.random.uniform(low=0.5, high=0.9).  The argument of
\* core_shape.scale is
\* k = core_scale_factor * shell.enclosing_sphere_diameter
\*                       / core.enclosing_sphere_diameter;
\* k is such an argument when k * (core diameter) / (shell diameter) lies in
\* [5/10, 9/10], compared on the squares.
CoreFactorInRange(k, coreD2, shellD2) ==
    /\ 5 * 5 * shellD2 * k[2] * k[2] <= 10 * 10 * k[1] * k[1] * coreD2
    /\ 10 * 10 * k[1] * k[1] * coreD2 <= 9 * 9 * shellD2 * k[2] * k[2]

\* The arguments of core_shape.scale the model enumerates.
CoreScaleSamples == {Ratio(j, 10) : j \in 1..10}

\* A slip: the core sized against the shell's largest dimension.
CoreScaleDraws_ByDimension(c, sh) ==
    {k \in CoreScaleSamples :
        /\ ScaleExact(c, k)
        /\ CoreFactorInRange(k, 4 * MaxDimension(c) * MaxDimension(c),
                             4 * MaxDimension(sh) * MaxDimension(sh))}

CoreScaleDraws(c, sh) ==
    {k \in CoreScaleSamples :
        /\ ScaleExact(c, k)
        /\ CoreFactorInRange(k, EnclosingSphereDiameter2(c),
                             EnclosingSphereDiameter2(sh))}

\* position_randomly(bounding_box=box) as one step: the shifts it can return.
\* The loop redraws until the drawn shift passes the cylinder test.
PositionRandomlyShifts(o, box) ==
    {s \in ShiftDraws(MinShift(o, box), MaxShift(o, box)) :
        ObjectFitsInCylinder(o, s, box)}

\* The objects one Scene holds: an operation is started only if the scene has
\* room for the objects it adds (add_random_shape one, add_random_core_shell_shape
\* three).
MaxObjects == 3

Returned == {"idle", "as_done", "cs_done"}

SceneInit ==
    /\ extent \in Extents
    /\ objs = <<>>
    /\ pc = "idle"
    /\ shape = None /\ shell = None /\ core = None /\ core_copy = None
    /\ quat = None /\ shell_shift = None /\ ret = None
    /\ calls = 0 /\ placed = {} /\ pre = None /\ booleans = <<>>
    /\ built = <<>>

\* ---- add_random_shape

\* Line 16: shape = random.choice(shape_package.ALL_SHAPES)(): the class is
\* called without arguments and draws its own.
AS_Build ==
    /\ pc \in Returned /\ Len(objs) + 1 <= MaxObjects
    /\ \E family \in ALL_SHAPES : \E args \in SampledArguments(family) :
            /\ objs' = Append(objs, Construct(family, args))
            /\ built' = Append(built, [family |-> family, args |-> args])
    /\ shape' = Len(objs) + 1
    /\ calls' = calls + 1
    /\ pc' = "as_rotate"
    /\ shell' = None /\ core' = None /\ core_copy' = None
    /\ quat' = None /\ shell_shift' = None /\ ret' = None
    /\ pre' = None /\ booleans' = <<>>
    /\ UNCHANGED <<extent, placed, notScene>>

\* Line 17: shape.apply_random_rotation()
AS_Rotate ==
    /\ pc = "as_rotate"
    /\ \E q \in QuaternionDraws : objs' = [objs EXCEPT ![shape] = Rotate(@, q)]
    /\ pc' = "as_scale"
    /\ UNCHANGED <<extent, shape, shell, core, core_copy, quat, shell_shift, ret,
                   calls, placed, pre, booleans, built, notScene>>

\* Lines 18-19: shape.scale(scale_factor / max(shape.dimensions))
AS_Scale ==
    /\ pc = "as_scale"
    /\ \E k \in ShapeScaleDraws(objs[shape]) :
            objs' = [objs EXCEPT ![shape] = Scale(@, k)]
    /\ pc' = "as_place"
    /\ UNCHANGED <<extent, shape, shell, core, core_copy, quat, shell_shift, ret,
                   calls, placed, pre, booleans, built, notScene>>

\* Lines 20-21: shape.position_randomly(...); return shape
AS_Place ==
    /\ pc = "as_place"
    /\ \E s \in PositionRandomlyShifts(objs[shape], ShrunkBox(extent)) :
            objs' = [objs EXCEPT ![shape] = Translate(@, s)]
    /\ ret' = shape
    /\ placed' = placed \cup {shape}
    /\ pc' = "as_done"
    /\ UNCHANGED <<extent, shape, shell, core, core_copy, quat, shell_shift,
                   calls, pre, booleans, built, notScene>>

\* ---- add_random_core_shell_shape

\* Line 24: shell_shape = random.choice(CORE_SHELL_SUITABLE_SHAPES)()
CS_ShellBuild ==
    /\ pc \in Returned /\ Len(objs) + 3 <= MaxObjects
    /\ \E s \in BuiltShapes : objs' = Append(objs, s)
    /\ shell' = Len(objs) + 1
    /\ calls' = calls + 1
    /\ pc' = "cs_shell_rotate"
    /\ shape' = None /\ core' = None /\ core_copy' = None
    /\ quat' = None /\ shell_shift' = None /\ ret' = None
    /\ pre' = None /\ booleans' = <<>>
    /\ UNCHANGED <<extent, placed, built, notScene>>

\* Line 25: shell_rotation_quaternion = shell_shape.apply_random_rotation()
CS_ShellRotate ==
    /\ pc = "cs_shell_rotate"
    /\ \E q \in QuaternionDraws :
            /\ objs' = [objs EXCEPT ![shell] = Rotate(@, q)]
            /\ quat' = q
    /\ pc' = "cs_shell_scale"
    /\ UNCHANGED <<extent, shape, shell, core, core_copy, shell_shift, ret,
                   calls, placed, pre, booleans, built, notScene>>

\* Lines 26-27: shell_shape.scale(shell_scale_factor / max(shell_shape.dimensions))
CS_ShellScale ==
    /\ pc = "cs_shell_scale"
    /\ \E k \in ShapeScaleDraws(objs[shell]) :
            objs' = [objs EXCEPT ![shell] = Scale(@, k)]
    /\ pc' = "cs_shell_place"
    /\ UNCHANGED <<extent, shape, shell, core, core_copy, quat, shell_shift, ret,
                   calls, placed, pre, booleans, built, notScene>>

\* Lines 28-29: shell_shift = shell_shape.position_randomly(...)
CS_ShellPlace ==
    /\ pc = "cs_shell_place"
    /\ \E s \in PositionRandomlyShifts(objs[shell], ShrunkBox(extent)) :
            /\ objs' = [objs EXCEPT ![shell] = Translate(@, s)]
            /\ shell_shift' = s
    /\ pc' = "cs_core_build"
    /\ UNCHANGED <<extent, shape, shell, core, core_copy, quat, ret,
                   calls, placed, pre, booleans, built, notScene>>

\* Line 31: core_shape = random.choice(CORE_SHELL_SUITABLE_SHAPES)()
CS_CoreBuild ==
    /\ pc = "cs_core_build"
    /\ \E s \in BuiltShapes : objs' = Append(objs, s)
    /\ core' = Len(objs) + 1
    /\ pc' = "cs_core_rotate"
    /\ UNCHANGED <<extent, shape, shell, core_copy, quat, shell_shift, ret,
                   calls, placed, pre, booleans, built, notScene>>

\* Line 32: core_shape.rotate(quaternion=shell_rotation_quaternion)
CS_CoreRotate ==
    /\ pc = "cs_core_rotate"
    /\ objs' = [objs EXCEPT ![core] = Rotate(@, quat)]
    /\ pc' = "cs_core_scale"
    /\ UNCHANGED <<extent, shape, shell, core, core_copy, quat, shell_shift, ret,
                   calls, placed, pre, booleans, built, notScene>>

\* Lines 33-35: core_shape.scale(core_scale_factor
\*     * shell_shape.enclosing_sphere_diameter / core_shape.enclosing_sphere_diameter)
CS_CoreScale ==
    /\ pc = "cs_core_scale"
    /\ \E k \in CoreScaleDraws(objs[core], objs[shell]) :
            objs' = [objs EXCEPT ![core] = Scale(@, k)]
    /\ pc' = "cs_core_translate"
    /\ UNCHANGED <<extent, shape, shell, core, core_copy, quat, shell_shift, ret,
                   calls, placed, pre, booleans, built, notScene>>

\* Line 36: core_shape.translate(shell_shift)
CS_CoreTranslate ==
    /\ pc = "cs_core_translate"
    /\ objs' = [objs EXCEPT ![core] = Translate(@, shell_shift)]
    /\ pc' = "cs_copy"
    /\ UNCHANGED <<extent, shape, shell, core, core_copy, quat, shell_shift, ret,
                   calls, placed, pre, booleans, built, notScene>>

\* Line 39: core_shape_copy = core_shape.copy(); bpy.ops.object.duplicate()
\* adds an object with the core's mesh to the scene.
CS_Copy ==
    /\ pc = "cs_copy"
    /\ pre' = [nobjs |-> Len(objs), shell |-> objs[shell], core |-> objs[core]]
    /\ objs' = Append(objs, objs[core])
    /\ core_copy' = Len(objs) + 1
    /\ pc' = "cs_intersect"
    /\ UNCHANGED <<extent, shape, shell, core, quat, shell_shift, ret,
                   calls, placed, booleans, built, notScene>>

\* Line 40: core_shape.apply_boolean(other=shell_shape, operation='intersect')
CS_Intersect ==
    /\ pc = "cs_intersect"
    /\ objs' = [objs EXCEPT ![core] = ApplyBoolean(@, objs[shell], "intersect")]
    /\ booleans' = Append(booleans, <<core, shell, "intersect">>)
    /\ pc' = "cs_difference"
    /\ UNCHANGED <<extent, shape, shell, core, core_copy, quat, shell_shift, ret,
                   calls, placed, pre, built, notScene>>

\* Line 41: shell_shape.apply_boolean(other=core_shape_copy, operation='difference')
CS_Difference ==
    /\ pc = "cs_difference"
    /\ objs' = [objs EXCEPT ![shell] = ApplyBoolean(@, objs[core_copy], "difference")]
    /\ booleans' = Append(booleans, <<shell, core_copy, "difference">>)
    /\ pc' = "cs_del"
    /\ UNCHANGED <<extent, shape, shell, core, core_copy, quat, shell_shift, ret,
                   calls, placed, pre, built, notScene>>

\* Lines 42-44: del core_shape_copy unbinds the local name, the object it
\* referred to stays in the scene; return core_shape, shell_shape
CS_Return ==
    /\ pc = "cs_del"
    /\ core_copy' = None
    /\ ret' = <<core, shell>>
    /\ pc' = "cs_done"
    /\ UNCHANGED <<extent, objs, shape, shell, core, quat, shell_shift,
                   calls, placed, pre, booleans, built, notScene>>

Next ==
    \/ AS_Build \/ AS_Rotate \/ AS_Scale \/ AS_Place
    \/ CS_ShellBuild \/ CS_ShellRotate \/ CS_ShellScale \/ CS_ShellPlace
    \/ CS_CoreBuild \/ CS_CoreRotate \/ CS_CoreScale \/ CS_CoreTranslate
    \/ CS_Copy \/ CS_Intersect \/ CS_Difference \/ CS_Return

Init == SceneInit /\ PlaceIdle /\ TransformIdle /\ SelectIdle /\ BuildIdle /\ RodIdle

Spec == Init /\ [][Next]_vars

\* Scene(extent = ...) with an extent that is not centred on the origin: one
\* that lies on the positive side of every axis, (1.0, 2.0) on each, and one
\* that holds the origin off its centre, (-0.25, 0.75) on each.
OffCentreExtents ==
    { <<Unit, 2 * Unit, Unit, 2 * Unit, Unit, 2 * Unit>>,
      <<-(Unit \div 4), (3 * Unit) \div 4, -(Unit \div 4), (3 * Unit) \div 4,
        -(Unit \div 4), (3 * Unit) \div 4>> }

InitExtent ==
    /\ extent \in OffCentreExtents
    /\ objs = <<>>
    /\ pc = "idle"
    /\ shape = None /\ shell = None /\ core = None /\ core_copy = None
    /\ quat = None /\ shell_shift = None /\ ret = None
    /\ calls = 0 /\ placed = {} /\ pre = None /\ booleans = <<>>
    /\ built = <<>>
    /\ PlaceIdle /\ TransformIdle /\ SelectIdle /\ BuildIdle /\ RodIdle

\* The Scene composer on the off-centre extents.
SpecExtent == InitExtent /\ [][Next]_vars

-----------------------------------------------------------------------------
(* Properties of add_random_shape *)

\* The bound 0.475 of the default extent shrunk by 0.95, in model units.
HalfShrunk == (475 * Unit) \div 1000

\* C5: in a Scene with the default extent every object add_random_shape has
\* placed, after any number of calls, has its bounding box within
\* [-0.475, 0.475] on every axis; and at every placement the object has been
\* scaled to a largest dimension in [0.75, 0.9], so that its bounding box is
\* no larger than the shrunk extent on any axis.
C5_PlacedWithinShrunkExtent ==
    extent = DefaultExtent =>
        /\ \A i \in placed :
                InsideBox(objs[i], <<-HalfShrunk, HalfShrunk, -HalfShrunk, HalfShrunk,
                                     -HalfShrunk, HalfShrunk>>)
        /\ pc = "as_place" =>
                /\ ScaleFactorLow <= MaxDimension(objs[shape])
                /\ MaxDimension(objs[shape]) <= ScaleFactorHigh
                /\ FitsBox(objs[shape], ShrunkBox(extent))

\* C5 witness: several add_random_shape calls have returned, one object lies
\* against the upper bound 0.475 and one against the lower bound -0.475.
C5_Witness ==
    /\ pc = "as_done" /\ extent = DefaultExtent
    /\ Cardinality(placed) >= 2
    /\ \E i \in placed : \E a \in Axes : BBoxMax(objs[i])[a] = HalfShrunk
    /\ \E i \in placed : \E a \in Axes : BBoxMin(objs[i])[a] = -HalfShrunk

\* C12 as stated: add_random_shape builds a family with the same construction
\* parameters on every call.
C12_SameFamilySameParameters ==
    \A i, j \in DOMAIN built :
        built[i].family = built[j].family => built[i].args = built[j].args

\* C12 amended: on every add_random_shape call the size (or height) passed to
\* the library is 1.0, and the other parameter is the one the randomized class
\* drew for this call from the family's range: the Rod's diameter in
\* [0.25, 1.0], the Cube's smoothing degree in [0.0, 0.1].
C12_SizeFixedParametersDrawn ==
    \A i \in DOMAIN built :
        /\ built[i].args[1] = Unit
        /\ built[i].family = "Rod" =>
                /\ 4 * built[i].args[2] >= Unit
                /\ built[i].args[2] <= Unit
        /\ built[i].family = "Cube" =>
                /\ built[i].args[2] >= 0
                /\ 10 * built[i].args[2] <= 1000000

\* C12 witness: two add_random_shape calls chose the Rod and passed different
\* diameters to the library, and the second has returned.
C12_Witness ==
    /\ pc = "as_done"
    /\ \E i, j \in DOMAIN built :
            /\ i < j /\ j = Len(built)
            /\ built[i].family = "Rod" /\ built[j].family = "Rod"
            /\ built[i].args[1] = built[j].args[1]
            /\ built[i].args[2] # built[j].args[2]

\* C15: for every object placed, which fitted the box passed to placement
\* (each extent scalar multiplied by 0.95), that box lies inside the Scene's
\* extent box and the object's bounding box lies inside the Scene's extent,
\* also when the extent is not centred on the origin.
C15_PlacedWithinSceneExtent ==
    \A i \in placed :
        /\ \A a \in Axes : /\ extent[2 * a - 1] <= ShrunkBox(extent)[2 * a - 1]
                            /\ ShrunkBox(extent)[2 * a] <= extent[2 * a]
        /\ InsideBox(objs[i], extent)

-----------------------------------------------------------------------------
(* Properties of add_random_core_shell_shape *)

\* C2: when add_random_core_shell_shape returns, the returned core and the
\* returned shell share no volume, and the returned core lies in the shell
\* as it was before the subtraction, also when the scaled core protruded.
C2_CoreShellDisjoint ==
    pc = "cs_done" =>
        /\ VolDisjoint(objs[ret[1]], objs[ret[2]])
        /\ VolSubset(objs[ret[1]], pre.shell)

\* C2 witness: a call returned whose scaled core protruded outside the shell
\* and whose shell was carved.
C2_Witness ==
    /\ pc = "cs_done"
    /\ ~VolSubset(pre.core, pre.shell)
    /\ objs[ret[1]].boxes # {}
    /\ objs[ret[2]] # pre.shell

\* The volume taken out of the shell sh0 to leave sh is the volume of c.
CavityIsCore(sh0, sh, c) ==
    \A e \in GridBoxes(Mesh(sh0.boxes \cup sh.boxes), c) :
        (Inside(e, sh0) /\ ~Inside(e, sh)) <=> Inside(e, c)

\* C3: the core is duplicated before any boolean operation; the intersection
\* is applied to the core before the difference is applied to the shell; the
\* difference takes the unclipped duplicate; and the cavity carved out of the
\* shell (the shell before the subtraction minus the returned shell) is the
\* returned core, however far the scaled core protruded.
C3_CopyThenIntersectThenDifference ==
    /\ pc = "cs_intersect" =>
            /\ booleans = <<>>
            /\ core_copy \in 1..Len(objs) /\ core_copy # core
            /\ objs[core_copy] = pre.core
            /\ objs[core] = pre.core /\ objs[shell] = pre.shell
    /\ pc = "cs_difference" =>
            /\ booleans = << <<core, shell, "intersect">> >>
            /\ objs[core_copy] = pre.core
            /\ objs[shell] = pre.shell
            /\ VolSubset(objs[core], pre.shell) /\ VolSubset(objs[core], pre.core)
    /\ pc \in {"cs_del", "cs_done"} =>
            /\ Len(booleans) = 2
            /\ booleans[1] = <<core, shell, "intersect">>
            /\ booleans[2][1] = shell /\ booleans[2][3] = "difference"
            /\ booleans[2][2] \notin {core, shell}
            /\ objs[booleans[2][2]] = pre.core
            /\ CavityIsCore(pre.shell, objs[shell], objs[core])

\* C3 witness: a call returned after both boolean steps, and the intersection
\* had clipped a core that protruded outside the shell.
C3_Witness ==
    /\ pc = "cs_done" /\ Len(booleans) = 2
    /\ ~VolSubset(pre.core, pre.shell)
    /\ objs[core] # pre.core
    /\ ~VolEqual(objs[core], pre.core)

\* C4: when add_random_core_shell_shape returns, the duplicate of the core is
\* no longer an object of the Scene: the call has added exactly two objects,
\* the core and the shell.
C4_TwoObjectsAdded ==
    pc = "cs_done" => Len(objs) = (shell - 1) + 2

\* The returned pair's ratio of enclosing-sphere diameters lies in [0.5, 0.9]
\* (compared on the squares).
DiameterRatioInRange(c, sh) ==
    /\ 5 * 5 * EnclosingSphereDiameter2(sh) <= 10 * 10 * EnclosingSphereDiameter2(c)
    /\ 10 * 10 * EnclosingSphereDiameter2(c) <= 9 * 9 * EnclosingSphereDiameter2(sh)

\* C10 as stated: the core and shell that add_random_core_shell_shape returns,
\* measured after both boolean steps, have enclosing-sphere diameters in a
\* ratio within [0.5, 0.9].
C10_ReturnedRatioInRange ==
    pc = "cs_done" => DiameterRatioInRange(objs[ret[1]], objs[ret[2]])

\* C10 amended: the ratio of the core's to the shell's enclosing-sphere
\* diameter lies in [0.5, 0.9] once the core is scaled and until the boolean
\* steps; on the returned pair it lies in [0.5, 0.9] when the scaled core lay
\* wholly inside the shell.
C10_ScaledRatioInRange ==
    /\ pc \in {"cs_core_translate", "cs_copy", "cs_intersect"} =>
            DiameterRatioInRange(objs[core], objs[shell])
    /\ (pc = "cs_done" /\ VolSubset(pre.core, pre.shell)) =>
            DiameterRatioInRange(objs[ret[1]], objs[ret[2]])

\* C10 witness: a call returned a core of another family than its shell that
\* lay wholly inside the shell.
C10_Witness ==
    /\ pc = "cs_done" /\ VolSubset(pre.core, pre.shell)
    /\ Dimensions(objs[ret[1]])[1] * Dimensions(pre.shell)[3]
            # Dimensions(objs[ret[1]])[3] * Dimensions(pre.shell)[1]
    /\ objs[ret[2]] # pre.shell

-----------------------------------------------------------------------------
(* SpecTransform: translate, rotate and scale called on one object *)

\* The calls made on one object.
MaxTransforms == 3

TranslationVectors == {<<7, -3, 12>>, <<-6, 0, 0>>}

ScaleVectors == {<<1, 2>>, <<3, 2>>}

TransformInit ==
    /\ t_obj \in BuiltShapes
    /\ t_prev = t_obj
    /\ t_op = None
    /\ t_pc = "ready"
    /\ t_n = 0

\* translate, line 57: blender_object.location = transation_vector.  The
\* callers are translate itself and position_randomly (line 159).
T_Translate(v, caller) ==
    /\ t_pc = "ready" /\ t_n < MaxTransforms
    /\ t_prev' = t_obj
    /\ t_obj' = [t_obj EXCEPT !.location = v]
    /\ t_op' = <<"translate", v, caller>>
    /\ t_pc' = "apply"
    /\ t_n' = t_n + 1
    /\ UNCHANGED notTransform

\* rotate, lines 65-72: with euler_angles or quaternion given the rotation is
\* set in that mode and the initial mode is put back, which keeps the rotation;
\* with neither given nothing is set.  The callers are rotate itself and
\* apply_random_rotation (line 167).
T_Rotate(q, how, caller) ==
    /\ t_pc = "ready" /\ t_n < MaxTransforms
    /\ t_prev' = t_obj
    /\ t_obj' = IF how = "none" THEN t_obj ELSE [t_obj EXCEPT !.rotation = q]
    /\ t_op' = <<"rotate", IF how = "none" THEN IdQuaternion ELSE q, caller>>
    /\ t_pc' = "apply"
    /\ t_n' = t_n + 1
    /\ UNCHANGED notTransform

\* scale, lines 76-78: blender_object.scale = scale_vector.  The callers are
\* scale itself and the builders' final rescale.
T_Scale(k, caller) ==
    /\ t_pc = "ready" /\ t_n < MaxTransforms
    /\ ScaleExact(t_obj, k)
    /\ t_prev' = t_obj
    /\ t_obj' = [t_obj EXCEPT !.scale = k]
    /\ t_op' = <<"scale", k, caller>>
    /\ t_pc' = "apply"
    /\ t_n' = t_n + 1
    /\ UNCHANGED notTransform

\* Lines 58, 73, 79 and 81-83: apply_all_transforms(), and the call returns.
T_Apply ==
    /\ t_pc = "apply"
    /\ t_obj' = ApplyAllTransforms(t_obj)
    /\ t_pc' = "ready"
    /\ UNCHANGED <<t_prev, t_op, t_n, notTransform>>

TransformNext ==
    \/ \E v \in TranslationVectors : T_Translate(v, "translate")
    \/ \E v \in PositionRandomlyShifts(t_obj, ShrunkBox(DefaultExtent)) :
            T_Translate(v, "position_randomly")
    \/ \E q \in QuaternionDraws, how \in {"euler_angles", "quaternion", "none"} :
            T_Rotate(q, how, "rotate")
    \/ \E q \in QuaternionDraws : T_Rotate(q, "quaternion", "apply_random_rotation")
    \/ \E k \in ScaleVectors, caller \in {"scale", "builder"} : T_Scale(k, caller)
    \/ T_Apply

InitTransform == TransformInit /\ PlaceIdle /\ SceneIdle /\ SelectIdle /\ BuildIdle /\ RodIdle

SpecTransform == InitTransform /\ [][TransformNext]_vars

\* Where the call op takes the point v.
OpImage(op, v) ==
    CASE op[1] = "translate" -> VAdd(v, op[2])
      [] op[1] = "rotate" -> MatVec(RotMatrix(op[2]), v)
      [] op[1] = "scale" ->
            <<(v[1] * op[2][1]) \div op[2][2], (v[2] * op[2][1]) \div op[2][2],
              (v[3] * op[2][1]) \div op[2][2]>>

\* C8: when a translate, rotate or scale call has returned (made directly, by
\* apply_random_rotation, by position_randomly or by a builder's final
\* rescale), after any sequence of such calls, the object's pending location,
\* rotation and scale are the identity and the call's effect is in the vertex
\* coordinates.
C8_TransformsBaked ==
    t_pc = "ready" =>
        /\ t_obj.location = IdLocation
        /\ t_obj.rotation = IdQuaternion
        /\ t_obj.scale = IdScale
        /\ t_n > 0 => Vertices(t_obj) = {OpImage(t_op, v) : v \in Vertices(t_prev)}

\* C8 witness: a sequence of calls has returned, the last a scale by a factor
\* other than 1 after a rotation moved the vertices.
C8_Witness ==
    /\ t_pc = "ready" /\ t_n = MaxTransforms
    /\ t_op[1] = "scale" /\ t_op[2] # IdScale
    /\ Vertices(t_obj) # Vertices(t_prev)
    /\ Dimensions(t_obj)[1] # Dimensions(t_obj)[3]
    /\ BBoxMin(t_obj)[1] + BBoxMax(t_obj)[1] # 0

-----------------------------------------------------------------------------
(* SpecSelect: the scoped selection selected(mode) *)

\* The objects ever created in the scene, and the selected() scopes nested.
MaxSceneObjects == 2

MaxDepth == 2

\* bpy.context.active_object is None.
NoObject == 0

SelectInit ==
    /\ s_live = {1}
    /\ s_active = 1
    /\ s_selected = {1}
    /\ s_mode = <<"OBJECT">>
    /\ s_stack = <<>>
    /\ s_last = None

\* bpy.context.object.mode
ContextMode(active, modes) == IF active = NoObject THEN "none" ELSE modes[active]

\* select(mode), lines 170-176: the engine state it leaves.
Select(o, mode, modes) ==
    [active |-> o,
     selected |-> {o},
     modes |-> [modes EXCEPT ![o] = IF mode = "none" THEN "OBJECT"
                                     ELSE IF mode = "edit" THEN "EDIT" ELSE "OBJECT"]]

\* A slip: the mode saved on entry is not put back (line 197 left out).
Restore_ModeLeft(f, live, modes) ==
    {[active |-> f.active, selected |-> f.selected \cap live,
      modes |-> [modes EXCEPT ![f.active] = "OBJECT"]]}

\* The finally block, lines 191-200, for a saved active object that still
\* exists: the engine states it can leave.  select_set on a deleted object
\* raises ReferenceError, which ends the block with the objects re-selected so
\* far and the mode left at OBJECT.
Restore(f, live, modes) ==
    IF f.selected \subseteq live
    THEN {[active |-> f.active, selected |-> f.selected,
           modes |-> [modes EXCEPT ![f.active] = f.mode]]}
    ELSE {[active |-> f.active, selected |-> S,
           modes |-> [modes EXCEPT ![f.active] = "OBJECT"]] :
                S \in SUBSET (f.selected \cap live)}

\* A builder's primitive_*_add, outside any scope: the new object is the
\* active and the only selected one.
S_Add ==
    /\ s_stack = <<>> /\ Len(s_mode) < MaxSceneObjects
    /\ ContextMode(s_active, s_mode) # "EDIT"
    /\ s_live' = s_live \cup {Len(s_mode) + 1}
    /\ s_active' = Len(s_mode) + 1
    /\ s_selected' = {Len(s_mode) + 1}
    /\ s_mode' = Append(s_mode, "OBJECT")
    /\ UNCHANGED <<s_stack, s_last, notSelect>>

\* selected(mode) entered on the object o, lines 184-187.  Without an active
\* object line 186 raises before anything is changed.
S_Enter(o, mode) ==
    /\ o \in s_live /\ s_active # NoObject /\ Len(s_stack) < MaxDepth
    /\ s_stack' = <<[self |-> o, req |-> mode, active |-> s_active,
                     selected |-> s_selected,
                     mode |-> ContextMode(s_active, s_mode)]>> \o s_stack
    /\ s_active' = Select(o, mode, s_mode).active
    /\ s_selected' = Select(o, mode, s_mode).selected
    /\ s_mode' = Select(o, mode, s_mode).modes
    /\ UNCHANGED <<s_live, s_last, notSelect>>

\* The body of copy(), line 43: bpy.ops.object.duplicate() copies the selected
\* objects; the copies become the selected ones, the copy of the active object
\* the active one.
S_Duplicate ==
    /\ s_stack # <<>> /\ Head(s_stack).req = "object"
    /\ s_active # NoObject /\ s_selected = {s_active}
    /\ Len(s_mode) < MaxSceneObjects
    /\ s_live' = s_live \cup {Len(s_mode) + 1}
    /\ s_active' = Len(s_mode) + 1
    /\ s_selected' = {Len(s_mode) + 1}
    /\ s_mode' = Append(s_mode, "OBJECT")
    /\ UNCHANGED <<s_stack, s_last, notSelect>>

\* The body of delete(), line 39: bpy.ops.object.delete() removes the selected
\* objects.
S_Delete ==
    /\ s_stack # <<>> /\ Head(s_stack).req = "object"
    /\ s_active # NoObject /\ s_selected # {}
    /\ s_live' = s_live \ s_selected
    /\ s_selected' = {}
    /\ s_active' = IF s_active \in s_selected THEN NoObject ELSE s_active
    /\ UNCHANGED <<s_mode, s_stack, s_last, notSelect>>

\* The scope is left, lines 190-200, by the body's completion, by a return in
\* the body or by an exception raised in it.
S_Exit(how) ==
    /\ s_stack # <<>>
    /\ LET f == Head(s_stack) IN
        \/ /\ f.active \notin s_live      \* line 192 raises ReferenceError
           /\ UNCHANGED <<s_active, s_selected, s_mode>>
           /\ s_last' = [frame |-> f, how |-> how, alive |-> FALSE,
                         active |-> s_active, selected |-> s_selected,
                         mode |-> ContextMode(s_active, s_mode)]
        \/ /\ f.active \in s_live
           /\ \E r \in Restore(f, s_live, s_mode) :
                /\ s_active' = r.active
                /\ s_selected' = r.selected
                /\ s_mode' = r.modes
                /\ s_last' = [frame |-> f, how |-> how, alive |-> TRUE,
                              active |-> r.active, selected |-> r.selected,
                              mode |-> ContextMode(r.active, r.modes)]
    /\ s_stack' = Tail(s_stack)
    /\ UNCHANGED <<s_live, notSelect>>

SelectNext ==
    \/ S_Add
    \/ \E o \in s_live, mode \in {"object", "edit", "none"} : S_Enter(o, mode)
    \/ S_Duplicate
    \/ S_Delete
    \/ \E how \in {"normal", "return", "exception"} : S_Exit(how)

InitSelect == SelectInit /\ PlaceIdle /\ SceneIdle /\ TransformIdle /\ BuildIdle /\ RodIdle

SpecSelect == InitSelect /\ [][SelectNext]_vars

-----------------------------------------------------------------------------
(* SpecBuild: the constructors of shapes/fcc.py and shapes/basic.py *)

\* Degrees are in millionths, dimensions in thousandths of the length 1.0 and
\* bevel widths, their products, in units of 1e-9.
BLENDER_EPS == 10000

\* The size argument 1.0.
Size == 1000

\* The truncation and smoothing degrees a constructor is given: 0, 1e-6, 1e-5
\* and 0.05.
DegreeSamples == {0, 1, 10, 50000}

NoDegrees ==
    [truncation |-> 0, tips_smoothing |-> 0, edges_smoothing |-> 0,
     tips_truncation |-> 0, smoothing |-> 0]

\* The degree arguments of each fcc constructor; the others keep their
\* default, 0.
DegreeArguments(family) ==
    CASE family \in {"Cube", "Octahedron", "Icosahedron", "Decahedron"} -> {"smoothing"}
      [] family = "TruncatedOctahedron" -> {"truncation", "smoothing"}
      [] family = "Triangle" -> {"tips_smoothing", "edges_smoothing"}
      [] family \in {"TruncatedTriangle", "Square", "Hexagon"} ->
            {"truncation", "tips_smoothing", "edges_smoothing"}
      [] family = "Bipyramid" -> {"tips_truncation", "smoothing"}

BuildFamilies ==
    {"Cube", "Octahedron", "TruncatedOctahedron", "Icosahedron", "Triangle",
     "TruncatedTriangle", "Square", "Hexagon", "Decahedron", "Bipyramid"}

\* The steps of each constructor, in the order of its code.
Program(family) ==
    CASE family = "Cube" -> <<"box_add", "smooth_edges", "rescale">>
      [] family \in {"Octahedron", "TruncatedOctahedron"} ->
            <<"cube_add", "octa_base", "octa_truncate", "basic_rescale",
              "smooth_edges", "rescale">>
      [] family = "Icosahedron" -> <<"ico_add", "smooth_edges", "rescale">>
      [] family = "Triangle" ->
            <<"cylinder_add", "prism_truncate", "prism_tips", "prism_edges",
              "basic_rescale", "rescale">>
      [] family \in {"TruncatedTriangle", "Square", "Hexagon"} ->
            <<"cylinder_add", "prism_truncate", "prism_tips", "prism_edges",
              "basic_rescale">>
      [] family \in {"Decahedron", "Bipyramid"} ->
            <<"circle_add", "bipyramid_base", "bipyramid_tips", "smooth_edges",
              "rescale">>

\* The step after the step pc of the family's constructor.
NextStep(family, step) ==
    LET prog == Program(family)
        i == CHOOSE j \in 1..Len(prog) : prog[j] = step
    IN IF i = Len(prog) THEN "done" ELSE prog[i + 1]

\* self.dimensions once the base mesh stands.
BaseDims(family) ==
    CASE family \in {"Cube", "Octahedron", "TruncatedOctahedron", "Icosahedron"} ->
            <<Size, Size, Size>>
      [] family = "Triangle" -> <<750, 866, 200>>
      [] family = "TruncatedTriangle" -> <<750, 866, 200>>
      [] family \in {"Square", "Hexagon"} -> <<Size, Size, 200>>
      [] family = "Decahedron" -> <<Size, 951, 773>>
      [] family = "Bipyramid" -> <<268, 255, Size>>

\* A bevel leaves the bounding box as it is or shrinks it.
BevelledDims(d) == {d, [i \in Axes |-> (9 * d[i]) \div 10]}

ISqrt(n) == CHOOSE r \in 0..2000 : r * r <= n /\ n < (r + 1) * (r + 1)

\* The length the final scale call divides size by.
Measure(family, d) ==
    CASE family \in {"Cube", "Octahedron", "TruncatedOctahedron", "Icosahedron"} ->
            Max({d[i] : i \in Axes})
      [] family \in {"Triangle", "TruncatedTriangle", "Square", "Hexagon", "Decahedron"} ->
            ISqrt(d[1] * d[1] + d[2] * d[2])
      [] family = "Bipyramid" -> d[3]

Rescaled(family, d) == [i \in Axes |-> (d[i] * Size) \div Measure(family, d)]

\* One mesh-engine call: op is the call, step the constructor's step that made
\* it, width the bevel's width or offset as a length, checked whether the
\* width was compared with BLENDER_EPS before the call.
Call(op, step, width, checked) ==
    [op |-> op, step |-> step, width |-> width, checked |-> checked]

\* if ..._degree > 0
DegreePositive(deg) == deg > 0

\* A slip: the tolerance test left out.
BelowEps_Never(width) == FALSE

\* if bevel_width < BLENDER_EPS: return
BelowEps(width) == width < BLENDER_EPS

BuildInit ==
    /\ b_family = None /\ b_deg = None /\ b_pc = "idle" /\ b_log = <<>>
    /\ b_dims = None /\ b_g = 0 /\ b_smooth = None

\* A constructor of shapes/fcc.py is called.
B_Start(family, deg) ==
    /\ b_pc = "idle"
    /\ \A a \in DOMAIN deg : a \notin DegreeArguments(family) => deg[a] = 0
    /\ b_family' = family
    /\ b_deg' = deg
    /\ b_pc' = Program(family)[1]
    /\ UNCHANGED <<b_log, b_dims, b_g, b_smooth, notBuild>>

\* The primitive the base shape starts from; basic.Box also scales it.
B_PrimitiveAdd ==
    /\ b_pc \in {"box_add", "cube_add", "ico_add", "cylinder_add", "circle_add"}
    /\ b_log' = IF b_pc = "box_add"
                THEN <<Call("primitive_add", "base", 0, FALSE),
                       Call("scale", "base", 0, FALSE)>>
                ELSE <<Call("primitive_add", "base", 0, FALSE)>>
    /\ b_dims' = IF b_pc = "circle_add"
                 THEN [BaseDims(b_family) EXCEPT ![3] = 0]
                 ELSE BaseDims(b_family)
    /\ b_g' = b_g + 1
    /\ b_pc' = NextStep(b_family, b_pc)
    /\ UNCHANGED <<b_family, b_deg, b_smooth, notBuild>>

\* basic.Octahedron, lines 51-55: the cube bevelled by 100 percent.
B_OctaBase ==
    /\ b_pc = "octa_base"
    /\ b_log' = b_log \o <<Call("bevel_modifier", "base", 0, FALSE),
                           Call("remove_doubles", "base", 0, FALSE)>>
    /\ b_g' = b_g + 1
    /\ b_pc' = NextStep(b_family, b_pc)
    /\ UNCHANGED <<b_family, b_deg, b_dims, b_smooth, notBuild>>

\* basic.Octahedron, lines 56-62: the truncation, a bevel by a percentage.
B_OctaTruncate ==
    /\ b_pc = "octa_truncate"
    /\ IF DegreePositive(b_deg.truncation)
       THEN /\ b_log' = b_log \o
                    <<Call("bevel_modifier", "truncation",
                           (b_deg.truncation * b_dims[1]) \div 3, FALSE),
                      Call("remove_doubles", "truncation", 0, FALSE)>>
            /\ b_dims' \in BevelledDims(b_dims)
            /\ b_g' = b_g + 1
       ELSE UNCHANGED <<b_log, b_dims, b_g>>
    /\ b_pc' = NextStep(b_family, b_pc)
    /\ UNCHANGED <<b_family, b_deg, b_smooth, notBuild>>

\* basic.Prism, lines 88-96: the truncation of the vertical edges.
B_PrismTruncate ==
    /\ b_pc = "prism_truncate"
    /\ IF DegreePositive(b_deg.truncation)
       THEN /\ b_log' = b_log \o
                    <<Call("bevel", "truncation",
                           (b_deg.truncation * b_dims[1]) \div 2, FALSE),
                      Call("remove_doubles", "truncation", 0, FALSE)>>
            /\ b_dims' \in BevelledDims(b_dims)
            /\ b_g' = b_g + 1
       ELSE UNCHANGED <<b_log, b_dims, b_g>>
    /\ b_pc' = NextStep(b_family, b_pc)
    /\ UNCHANGED <<b_family, b_deg, b_smooth, notBuild>>

\* basic.Prism, lines 99-105: offset = tips_smoothing_degree * dimensions.x
B_PrismTips ==
    /\ b_pc = "prism_tips"
    /\ IF DegreePositive(b_deg.tips_smoothing)
       THEN /\ b_log' = b_log \o
                    <<Call("bevel", "tips_smoothing",
                           b_deg.tips_smoothing * b_dims[1], FALSE),
                      Call("remove_doubles", "tips_smoothing", 0, FALSE)>>
            /\ b_dims' \in BevelledDims(b_dims)
            /\ b_g' = b_g + 1
       ELSE UNCHANGED <<b_log, b_dims, b_g>>
    /\ b_pc' = NextStep(b_family, b_pc)
    /\ UNCHANGED <<b_family, b_deg, b_smooth, notBuild>>

\* basic.Prism, lines 106-112: offset = edges_smoothing_degree * dimensions.z
B_PrismEdges ==
    /\ b_pc = "prism_edges"
    /\ IF DegreePositive(b_deg.edges_smoothing)
       THEN /\ b_log' = b_log \o
                    <<Call("bevel", "edges_smoothing",
                           b_deg.edges_smoothing * b_dims[3], FALSE),
                      Call("remove_doubles", "edges_smoothing", 0, FALSE)>>
            /\ b_dims' \in BevelledDims(b_dims)
            /\ b_g' = b_g + 1
       ELSE UNCHANGED <<b_log, b_dims, b_g>>
    /\ b_pc' = NextStep(b_family, b_pc)
    /\ UNCHANGED <<b_family, b_deg, b_smooth, notBuild>>

\* basic.Bipyramid, lines 123-137: the circle extruded to both tips.
B_BipyramidBase ==
    /\ b_pc = "bipyramid_base"
    /\ b_log' = b_log \o <<Call("extrude", "base", 0, FALSE),
                           Call("resize", "base", 0, FALSE),
                           Call("extrude", "base", 0, FALSE),
                           Call("resize", "base", 0, FALSE),
                           Call("remove_doubles", "base", 0, FALSE)>>
    /\ b_dims' = BaseDims(b_family)
    /\ b_g' = b_g + 1
    /\ b_pc' = NextStep(b_family, b_pc)
    /\ UNCHANGED <<b_family, b_deg, b_smooth, notBuild>>

\* basic.Bipyramid, lines 139-148: the tips truncated by a vertex bevel of
\* width tips_truncation_degree * max(dimensions), unless below BLENDER_EPS.
B_BipyramidTips ==
    /\ b_pc = "bipyramid_tips"
    /\ LET bevel_width == b_deg.tips_truncation * Max({b_dims[i] : i \in Axes}) IN
       IF DegreePositive(b_deg.tips_truncation) /\ ~BelowEps(bevel_width)
       THEN /\ b_log' = b_log \o
                    <<Call("bevel", "tips_truncation", bevel_width, TRUE),
                      Call("remove_doubles", "tips_truncation", 0, FALSE)>>
            /\ b_dims' \in BevelledDims(b_dims)
            /\ b_g' = b_g + 1
       ELSE UNCHANGED <<b_log, b_dims, b_g>>
    /\ b_pc' = NextStep(b_family, b_pc)
    /\ UNCHANGED <<b_family, b_deg, b_smooth, notBuild>>

\* basic.Octahedron line 64 and basic.Prism line 114: the scale call that ends
\* the basic constructor.
B_BasicRescale ==
    /\ b_pc = "basic_rescale"
    /\ b_log' = Append(b_log, Call("scale", "rescale", 0, FALSE))
    /\ b_dims' = Rescaled(b_family, b_dims)
    /\ b_g' = b_g + 1
    /\ b_pc' = NextStep(b_family, b_pc)
    /\ UNCHANGED <<b_family, b_deg, b_smooth, notBuild>>

\* smooth_edges(degree), blender.py lines 237-246.
B_SmoothEdges ==
    /\ b_pc = "smooth_edges"
    /\ LET bevel_width == b_deg.smoothing * Max({b_dims[i] : i \in Axes}) IN
       IF BelowEps(bevel_width)
       THEN /\ UNCHANGED <<b_log, b_dims, b_g>>
            /\ b_smooth' = [entered |-> <<b_g, b_dims>>, returned |-> <<b_g, b_dims>>]
       ELSE /\ b_log' = Append(b_log, Call("bevel_modifier", "smoothing",
                                           bevel_width, TRUE))
            /\ b_dims' \in BevelledDims(b_dims)
            /\ b_g' = b_g + 1
            /\ b_smooth' = [entered |-> <<b_g, b_dims>>, returned |-> <<b_g', b_dims'>>]
    /\ b_pc' = NextStep(b_family, b_pc)
    /\ UNCHANGED <<b_family, b_deg, notBuild>>

\* The scale call that ends the fcc constructor.
B_FinalRescale ==
    /\ b_pc = "rescale"
    /\ b_log' = Append(b_log, Call("scale", "rescale", 0, FALSE))
    /\ b_dims' = Rescaled(b_family, b_dims)
    /\ b_g' = b_g + 1
    /\ b_pc' = NextStep(b_family, b_pc)
    /\ UNCHANGED <<b_family, b_deg, b_smooth, notBuild>>

BuildNext ==
    \/ \E family \in BuildFamilies, deg \in [DOMAIN NoDegrees -> DegreeSamples] :
            B_Start(family, deg)
    \/ B_PrimitiveAdd
    \/ B_OctaBase \/ B_OctaTruncate
    \/ B_PrismTruncate \/ B_PrismTips \/ B_PrismEdges
    \/ B_BipyramidBase \/ B_BipyramidTips
    \/ B_BasicRescale \/ B_SmoothEdges \/ B_FinalRescale

InitBuild == BuildInit /\ PlaceIdle /\ SceneIdle /\ TransformIdle /\ SelectIdle /\ RodIdle

SpecBuild == InitBuild /\ [][BuildNext]_vars

BevelOps == {"bevel", "bevel_modifier"}

\* C6: a constructor given degree 0 for a truncation or smoothing makes no
\* mesh-engine call for that step: with every degree 0 the calls are those of
\* the base shape followed by the rescale, none of them a truncation or
\* smoothing bevel, and smooth_edges(0) returns with the mesh as it found it.
C6_DegreeZeroNoBevel ==
    /\ \A i \in 1..Len(b_log) :
            b_log[i].step \in DOMAIN NoDegrees => b_deg[b_log[i].step] # 0
    /\ (b_pc = "done" /\ b_deg = NoDegrees) =>
            /\ \A i \in 1..Len(b_log) :
                    /\ b_log[i].step \in {"base", "rescale"}
                    /\ b_log[i].op \in BevelOps => b_log[i].step = "base"
            /\ b_log[Len(b_log)].step = "rescale"
            /\ \A i \in 1..(Len(b_log) - 1) :
                    b_log[i].step = "rescale" => b_log[i + 1].step = "rescale"
    /\ (b_smooth # None /\ b_deg.smoothing = 0) => b_smooth.returned = b_smooth.entered

\* C6 witness: the TruncatedOctahedron constructor has returned, given degree 0
\* for both its truncation and its smoothing, after its base bevel.
C6_Witness ==
    /\ b_pc = "done" /\ b_family = "TruncatedOctahedron" /\ b_deg = NoDegrees
    /\ b_smooth # None
    /\ \E i \in 1..Len(b_log) : b_log[i].op = "bevel_modifier"

\* C7: every truncation or smoothing bevel a constructor invokes has had its
\* width compared with the tolerance 1e-5 beforehand, and is invoked with a
\* width or offset of at least 1e-5.
C7_EveryBevelChecked ==
    \A i \in 1..Len(b_log) :
        (b_log[i].op \in BevelOps /\ b_log[i].step # "base") =>
            /\ b_log[i].checked
            /\ b_log[i].width >= BLENDER_EPS

-----------------------------------------------------------------------------
(* SpecRod: fcc.Rod and the SphericallyCappedCylinder recipe *)

\* Heights are in units of 1e-9, as BLENDER_EPS is: the length 1.0.
One == 100000 * BLENDER_EPS

\* The height and diameter arguments fcc.Rod is given: the randomized Rod's
\* height 1.0 with diameters of its range U(0.25, 1.0), a diameter within
\* 1e-8 of the height, a rod half as high, and the diameters 1e-5 and 3e-5
\* of spheres that lie within BLENDER_EPS of z = 0 wholly or beyond the equator.
RodHeights == {One, One \div 2}

RodDiameterArguments ==
    {One \div 4, One \div 2, (One \div 4) * 3, One - 10, One, BLENDER_EPS, 3 * BLENDER_EPS}

\* The z coordinates the float32 ico sphere has for its equator vertices:
\* zero, or a rounding error either side of it.
EquatorZ == {-3, 0, 3}

\* A slip: the whole height extruded, the caps not subtracted.
MiddleSectionHeight_CapsIgnored(height, diameter) == height

\* fcc.Rod: middle_section_height = height - diameter
MiddleSectionHeight(height, diameter) == height - diameter

\* Ellipsoid(diameter, subdivisions): the ico sphere of radius 0.5 scaled by
\* the diameter, as the rings of vertices it has from the lower pole to the
\* upper one: the poles, the equator (z = ze) and a ring either side of it
\* at three fifths of the radius, where the ring's radius is four fifths.
Ellipsoid(diameter, ze) ==
    LET r == diameter \div 2
    IN  << [z |-> -r, rad |-> 0, new |-> FALSE],
           [z |-> -((r \div 5) * 3), rad |-> (r \div 5) * 4, new |-> FALSE],
           [z |-> ze, rad |-> r, new |-> FALSE],
           [z |-> (r \div 5) * 3, rad |-> (r \div 5) * 4, new |-> FALSE],
           [z |-> r, rad |-> 0, new |-> FALSE] >>

\* Of the sphere of this diameter only the equator vertices lie within
\* BLENDER_EPS of z = 0.
OnlyEquatorNearZero(diameter) ==
    \A i \in DOMAIN Ellipsoid(diameter, 0) :
        2 * Ellipsoid(diameter, 0)[i].rad # diameter =>
            Abs(Ellipsoid(diameter, 0)[i].z) >= BLENDER_EPS

\* Line 38: criterion_func = lambda v: v.co[2] > -BLENDER_EPS
UpperCap(z) == z > -BLENDER_EPS

\* Line 43: criterion_func = lambda v: v.co[2] < BLENDER_EPS
LowerCap(z) == z < BLENDER_EPS

\* bpy.ops.mesh.extrude_region_move on a selection that reaches the upper
\* pole: the lowest selected ring, the rim of the region, is duplicated, the
\* original stays where it is joined to the unselected part, and the copy
\* moves with the rest of the region by dz.  A selection of the whole mesh has
\* no rim and moves as it is; an empty one changes nothing.
ExtrudeRegionMove(rings, sel, dz) ==
    IF sel = {} THEN rings
    ELSE LET b == CHOOSE i \in sel : \A j \in sel : i <= j
         IN  IF b = 1
             THEN [i \in DOMAIN rings |-> [rings[i] EXCEPT !.z = @ + dz]]
             ELSE [i \in 1..(Len(rings) + 1) |->
                     IF i <= b THEN rings[i]
                     ELSE [z |-> rings[i - 1].z + dz,
                           rad |-> rings[i - 1].rad,
                           new |-> (i = b + 1)]]

\* The selection extrude_region_move leaves: the moved region.
ExtrudedSelection(rings, sel) ==
    IF sel = {} THEN {}
    ELSE LET b == CHOOSE i \in sel : \A j \in sel : i <= j
         IN  IF b = 1 THEN sel ELSE {i + 1 : i \in sel}

\* bpy.ops.transform.translate(value=(0, 0, dz)) on the selected vertices.
TranslateSelected(rings, sel, dz) ==
    [i \in DOMAIN rings |-> IF i \in sel THEN [rings[i] EXCEPT !.z = @ + dz]
                            ELSE rings[i]]

\* self.dimensions[2]
ZExtent(rings) ==
    LET zs == {rings[i].z : i \in DOMAIN rings}
    IN  (CHOOSE a \in zs : \A c \in zs : c <= a) - (CHOOSE a \in zs : \A c \in zs : a <= c)

RodInit ==
    /\ r_args = None /\ r_pc = "idle" /\ r_rings = <<>> /\ r_sel = {}

\* fcc.Rod(height, diameter)
R_Call(height, diameter) ==
    /\ r_pc = "idle"
    /\ r_args' = <<height, diameter>>
    /\ r_pc' = "ellipsoid"
    /\ UNCHANGED <<r_rings, r_sel, notRod>>

\* Line 36: Ellipsoid.__init__(self, diameter, subdivisions)
R_Ellipsoid ==
    /\ r_pc = "ellipsoid"
    /\ \E ze \in EquatorZ : r_rings' = Ellipsoid(r_args[2], ze)
    /\ r_sel' = {}
    /\ r_pc' = "select_upper"
    /\ UNCHANGED <<r_args, notRod>>

\* Line 38: select_vertices deselects everything and selects the vertices
\* the criterion holds of: the upper cap.
R_SelectUpper ==
    /\ r_pc = "select_upper"
    /\ r_sel' = {i \in DOMAIN r_rings : UpperCap(r_rings[i].z)}
    /\ r_pc' = "extrude"
    /\ UNCHANGED <<r_args, r_rings, notRod>>

\* Lines 39-41: extrude_region_move by (0, 0, middle_section_height/2)
R_Extrude ==
    /\ r_pc = "extrude"
    /\ r_rings' = ExtrudeRegionMove(r_rings, r_sel,
                                    MiddleSectionHeight(r_args[1], r_args[2]) \div 2)
    /\ r_sel' = ExtrudedSelection(r_rings, r_sel)
    /\ r_pc' = "select_lower"
    /\ UNCHANGED <<r_args, notRod>>

\* Line 43: select_vertices again: the lower cap.
R_SelectLower ==
    /\ r_pc = "select_lower"
    /\ r_sel' = {i \in DOMAIN r_rings : LowerCap(r_rings[i].z)}
    /\ r_pc' = "translate"
    /\ UNCHANGED <<r_args, r_rings, notRod>>

\* Line 44: translate by (0, 0, -middle_section_height/2)
R_Translate ==
    /\ r_pc = "translate"
    /\ r_rings' = TranslateSelected(r_rings, r_sel,
                                    -(MiddleSectionHeight(r_args[1], r_args[2]) \div 2))
    /\ r_pc' = "done"
    /\ UNCHANGED <<r_args, r_sel, notRod>>

RodNext ==
    \/ \E height \in RodHeights, diameter \in RodDiameterArguments : R_Call(height, diameter)
    \/ R_Ellipsoid
    \/ R_SelectUpper
    \/ R_Extrude
    \/ R_SelectLower
    \/ R_Translate

InitRod ==
    RodInit /\ PlaceIdle /\ SceneIdle /\ TransformIdle /\ SelectIdle /\ BuildIdle

SpecRod == InitRod /\ [][RodNext]_vars

\* C13 as stated: the upper step selects exactly the vertices with z > +1e-5,
\* the lower step exactly those with z < -1e-5, so a vertex with |z| <= 1e-5
\* is selected by neither; and for 0 < diameter <= height the finished rod's
\* z-extent is the height.
C13_EquatorSelectedByNeither ==
    /\ r_pc = "extrude" =>
            r_sel = {i \in DOMAIN r_rings : r_rings[i].z > BLENDER_EPS}
    /\ r_pc = "translate" =>
            r_sel = {i \in DOMAIN r_rings : r_rings[i].z < -BLENDER_EPS}
    /\ (r_pc = "done" /\ 0 < r_args[2] /\ r_args[2] <= r_args[1]) =>
            ZExtent(r_rings) = r_args[1]

\* C13 amended: the upper step selects exactly the vertices with z > -1e-5 and
\* the lower step exactly those with z < +1e-5.  On a sphere that has only its
\* equator vertices within 1e-5 of z = 0 these are selected by both: the upper
\* step extrudes them and the lower step moves the ring of the full diameter
\* that the extrusion left behind; and for such a diameter, no larger than
\* the height, the finished rod's z-extent is the height.
C13_EquatorSelectedByBoth ==
    /\ r_pc = "extrude" =>
            /\ r_sel = {i \in DOMAIN r_rings : r_rings[i].z > -BLENDER_EPS}
            /\ \E i \in r_sel : /\ Abs(r_rings[i].z) < BLENDER_EPS
                                /\ 2 * r_rings[i].rad = r_args[2]
    /\ r_pc = "translate" =>
            /\ r_sel = {i \in DOMAIN r_rings : r_rings[i].z < BLENDER_EPS}
            /\ OnlyEquatorNearZero(r_args[2]) =>
                    \E i \in r_sel : /\ Abs(r_rings[i].z) < BLENDER_EPS
                                     /\ ~r_rings[i].new
                                     /\ 2 * r_rings[i].rad = r_args[2]
    /\ (r_pc = "done" /\ OnlyEquatorNearZero(r_args[2]) /\ r_args[2] <= r_args[1]) =>
            ZExtent(r_rings) = r_args[1]

\* C13 witness: a rod higher than wide is finished, on a sphere whose equator
\* vertices lay a rounding error below zero: the ring left behind went down,
\* its copy up, and the rod is as high as asked.
C13_Witness ==
    /\ r_pc = "done" /\ r_args[2] < r_args[1]
    /\ ZExtent(r_rings) = r_args[1]
    /\ \E i \in DOMAIN r_rings :
            /\ i > 1 /\ r_rings[i].new
            /\ r_rings[i].z > 0
            /\ r_rings[i - 1].z < -BLENDER_EPS
            /\ r_rings[i].z + r_rings[i - 1].z < 0

====
